---------------------------- MODULE Spec2Model ----------------------------
(***************************************************************************)
(* Model of scripts/generate_appcast.py: one run of main(), from argument  *)
(* parsing to process exit.  Python strings are sequences of one-character *)
(* strings, so that lower(), endswith(), lstrip(), replace() and           *)
(* xml.sax.saxutils.escape() are computed character by character.          *)
(* An optional value (None or a value) is a sequence of length 0 or 1.     *)
(***************************************************************************)
EXTENDS Integers, Sequences, FiniteSets, TLC

\* ------------------------------------------------------------------------
\* Bounds of the model
MaxReleases == 3
MaxAssets == 3

\* ------------------------------------------------------------------------
\* Python values
None == <<>>
Some(v) == <<v>>
Val(o) == o[1]
\* Python truthiness of an optional string: None and '' are falsy
Truthy(o) == o # None /\ Val(o) # <<>>

\* str.replace(old, new) for a one-character old
RECURSIVE Replace(_, _, _)
Replace(s, c, r) ==
  IF s = <<>> THEN <<>>
  ELSE (IF Head(s) = c THEN r ELSE <<Head(s)>>) \o Replace(Tail(s), c, r)

\* xml.sax.saxutils.escape(data) with no extra entities: & then > then <
sax_escape(data) ==
  Replace(Replace(Replace(data, "&", <<"&","a","m","p",";">>), ">", <<"&","g","t",";">>), "<", <<"&","l","t",";">>)

UpperLetters == <<"A","B","C","D","E","F","G","H","I","J","K","L","M","N","O","P","Q","R","S","T","U","V","W","X","Y","Z">>
LowerLetters == <<"a","b","c","d","e","f","g","h","i","j","k","l","m","n","o","p","q","r","s","t","u","v","w","x","y","z">>
LowerChar(c) ==
  IF \E k \in 1..26 : UpperLetters[k] = c
  THEN LowerLetters[CHOOSE k \in 1..26 : UpperLetters[k] = c]
  ELSE c
\* str.lower()
lower(s) == [k \in 1..Len(s) |-> LowerChar(s[k])]

\* str.endswith(suffix)
endswith(s, suf) ==
  Len(s) >= Len(suf) /\ SubSeq(s, Len(s) - Len(suf) + 1, Len(s)) = suf

\* str.lstrip(chars) for a one-character chars: every leading occurrence goes
RECURSIVE lstrip(_, _)
lstrip(s, c) ==
  IF s # <<>> /\ Head(s) = c THEN lstrip(Tail(s), c) ELSE s

Digits == <<"0","1","2","3","4","5","6","7","8","9">>
DigitChar(d) == Digits[d + 1]
IsDigit(c) == \E k \in 1..10 : Digits[k] = c
DigitVal(c) == (CHOOSE k \in 1..10 : Digits[k] = c) - 1

\* str(n) for a non-negative int
RECURSIVE str(_)
str(n) == IF n < 10 THEN <<DigitChar(n)>> ELSE str(n \div 10) \o <<DigitChar(n % 10)>>

\* zero-padded two-digit field of strftime (%d, %H, %M, %S)
Pad2(n) == <<DigitChar(n \div 10), DigitChar(n % 10)>>

\* ------------------------------------------------------------------------
\* iso_to_rfc2822 and the datetime calls it makes
IsLeap(y) == (y % 4 = 0 /\ y % 100 # 0) \/ y % 400 = 0
DaysInMonth(y, m) ==
  IF m = 2 THEN (IF IsLeap(y) THEN 29 ELSE 28)
  ELSE IF m \in {4, 6, 9, 11} THEN 30 ELSE 31

RECURSIVE Num(_)
Num(s) == IF s = <<>> THEN 0 ELSE 10 * Num(SubSeq(s, 1, Len(s) - 1)) + DigitVal(s[Len(s)])

\* positions of the digits in 'YYYY-MM-DDTHH:MM:SS+HH:MM'
IsoDigitPos == {1, 2, 3, 4, 6, 7, 9, 10, 12, 13, 15, 16, 18, 19, 21, 22, 24, 25}
IsoShape(s) ==
  /\ Len(s) = 25
  /\ \A k \in IsoDigitPos : IsDigit(s[k])
  /\ s[5] = "-" /\ s[8] = "-" /\ s[14] = ":" /\ s[17] = ":"
  /\ s[20] \in {"+", "-"} /\ s[23] = ":"

IsoFields(s) ==
  [year |-> Num(SubSeq(s, 1, 4)), month |-> Num(SubSeq(s, 6, 7)),
   day |-> Num(SubSeq(s, 9, 10)), hour |-> Num(SubSeq(s, 12, 13)),
   minute |-> Num(SubSeq(s, 15, 16)), second |-> Num(SubSeq(s, 18, 19)),
   sign |-> s[20], offh |-> Num(SubSeq(s, 21, 22)), offm |-> Num(SubSeq(s, 24, 25))]

IsoInRange(f) ==
  /\ f.year >= 1 /\ f.month \in 1..12 /\ f.day >= 1
  /\ f.day <= DaysInMonth(f.year, f.month)
  /\ f.hour <= 23 /\ f.minute <= 59 /\ f.second <= 59
  /\ f.offh <= 23 /\ f.offm <= 59

\* datetime.fromisoformat for a full date, time and UTC offset; None stands
\* for the ValueError it raises on any other text
fromisoformat(s) ==
  IF IsoShape(s) /\ IsoInRange(IsoFields(s)) THEN Some(IsoFields(s)) ELSE None

DayNames == <<<<"S","a","t">>, <<"S","u","n">>, <<"M","o","n">>, <<"T","u","e">>, <<"W","e","d">>, <<"T","h","u">>, <<"F","r","i">>>>
MonthNames == <<<<"J","a","n">>, <<"F","e","b">>, <<"M","a","r">>, <<"A","p","r">>, <<"M","a","y">>, <<"J","u","n">>,
                <<"J","u","l">>, <<"A","u","g">>, <<"S","e","p">>, <<"O","c","t">>, <<"N","o","v">>, <<"D","e","c">>>>

\* day of the week by Zeller's congruence: 0 is Saturday
Weekday(y, m, d) ==
  LET yy == IF m < 3 THEN y - 1 ELSE y
      mm == IF m < 3 THEN m + 12 ELSE m
      K == yy % 100
      J == yy \div 100
  IN (d + ((13 * (mm + 1)) \div 5) + K + (K \div 4) + (J \div 4) + 5 * J) % 7

\* dt.strftime('%a, %d %b %Y %H:%M:%S %z')
strftime(f) ==
  DayNames[Weekday(f.year, f.month, f.day) + 1] \o <<","," ">> \o Pad2(f.day) \o <<" ">>
  \o MonthNames[f.month] \o <<" ">> \o str(f.year) \o <<" ">>
  \o Pad2(f.hour) \o <<":">> \o Pad2(f.minute) \o <<":">> \o Pad2(f.second) \o <<" ">>
  \o <<IF f.offh = 0 /\ f.offm = 0 THEN "+" ELSE f.sign>> \o Pad2(f.offh) \o Pad2(f.offm)

\* iso_to_rfc2822(iso); None stands for the ValueError of fromisoformat
iso_to_rfc2822(iso) ==
  LET dt == fromisoformat(Replace(iso, "Z", <<"+","0","0",":","0","0">>))
  IN IF dt = None THEN None ELSE Some(strftime(Val(dt)))

\* os.path.dirname(p) of posixpath
RECURSIVE LastSlash(_)
LastSlash(p) ==
  IF p = <<>> THEN 0
  ELSE IF p[Len(p)] = "/" THEN Len(p) ELSE LastSlash(SubSeq(p, 1, Len(p) - 1))
RECURSIVE rstrip(_, _)
rstrip(s, c) ==
  IF s # <<>> /\ s[Len(s)] = c THEN rstrip(SubSeq(s, 1, Len(s) - 1), c) ELSE s
dirname(p) ==
  LET head == SubSeq(p, 1, LastSlash(p))
  IN IF head # <<>> /\ rstrip(head, "/") # <<>> THEN rstrip(head, "/") ELSE head

\* ------------------------------------------------------------------------
\* Asset selection (the inner loops of main)
ext_priority ==
  << [ext |-> <<".","z","i","p">>, prio |-> 0],
     [ext |-> <<".","d","m","g">>, prio |-> 1],
     [ext |-> <<".","p","k","g">>, prio |-> 2] >>

\* the name without the call to lower()
AssetName_cased(a) == IF Truthy(a.name) THEN Val(a.name) ELSE <<>>

\* (a.get('name') or '').lower()
AssetName(a) == lower(IF Truthy(a.name) THEN Val(a.name) ELSE <<>>)

\* for ext, prio in ext_priority.items(): if name.endswith(ext): ... break
\* the rank of the first extension of the table that matches, or None
MatchPrio(name) ==
  LET hits == {k \in 1..Len(ext_priority) : endswith(name, ext_priority[k].ext)}
  IN IF hits = {} THEN None
     ELSE Some(ext_priority[CHOOSE k \in hits : \A h \in hits : k <= h].prio)

\* the comparison with <= in place of <: the last asset of a rank wins
Replaces_tie(preferred, prio, preferred_prio) ==
  preferred = None \/ prio <= Val(preferred_prio)

\* if preferred is None or prio < preferred_prio
Replaces(preferred, prio, preferred_prio) ==
  preferred = None \/ prio < Val(preferred_prio)

\* for a in assets: ... ; the pair (preferred, preferred_prio) after the loop
RECURSIVE SelectLoop(_, _, _)
SelectLoop(assets, preferred, preferred_prio) ==
  IF assets = <<>> THEN [preferred |-> preferred, preferred_prio |-> preferred_prio]
  ELSE LET a == Head(assets)
           m == MatchPrio(AssetName(a))
       IN IF m # None /\ Replaces(preferred, Val(m), preferred_prio)
          THEN SelectLoop(Tail(assets), Some(a), m)
          ELSE SelectLoop(Tail(assets), preferred, preferred_prio)

\* rel.get('assets', []): an absent key gives the empty list
AssetsOf(rel) == IF rel.assets = None THEN <<>> ELSE Val(rel.assets)

Preferred(rel) == SelectLoop(AssetsOf(rel), None, None).preferred

\* if not preferred: continue
NotPreferred(preferred) == preferred = None

\* rel.get('name') or tag
TitleOf(rel) == IF Truthy(rel.name) THEN rel.name ELSE rel.tag_name

\* rel.get('published_at') or rel.get('created_at')
PubOf(rel) == IF Truthy(rel.published_at) THEN rel.published_at ELSE rel.created_at

\* tag.lstrip('v') if tag else ''
VersionOf(tag) == IF Truthy(tag) THEN lstrip(Val(tag), "v") ELSE <<>>

\* iso_to_rfc2822(pub) if pub else ''; None when iso_to_rfc2822 raises
PubDateOf(pub) == IF Truthy(pub) THEN iso_to_rfc2822(Val(pub)) ELSE Some(<<>>)

\* str(preferred.get('size', 0))
LengthOf(a) == str(IF a.size = None THEN 0 ELSE Val(a.size))

\* the dict appended to items for a release with a preferred asset
ItemOf(rel) ==
  LET a == Val(Preferred(rel))
  IN [title |-> TitleOf(rel), notes |-> rel.html_url,
      pubDate |-> Val(PubDateOf(PubOf(rel))), url |-> a.browser_download_url,
      length |-> LengthOf(a), version |-> VersionOf(rel.tag_name)]

\* items.insert(0, {...}) in place of append
AppendItem_front(items, it) == <<it>> \o items

\* items.append({...})
AppendItem(items, it) == Append(items, it)

\* ------------------------------------------------------------------------
\* XML serialization
XmlHeader(repo) ==
  << <<"<","?","x","m","l"," ","v","e","r","s","i","o","n","=","\"","1",".","0","\""," ","e","n","c","o","d","i","n","g","=","\"","u","t","f","-","8","\"","?",">">>,
     <<"<","r","s","s"," ","v","e","r","s","i","o","n","=","\"","2",".","0","\""," ","x","m","l","n","s",":","s","p","a","r","k","l","e","=","\"","h","t","t","p",":","/","/","w","w","w",".","a","n","d","y","m","a","t","u","s","c","h","a","k",".","o","r","g","/","x","m","l","-","n","a","m","e","s","p","a","c","e","s","/","s","p","a","r","k","l","e","\""," ","x","m","l","n","s",":","d","c","=","\"","h","t","t","p",":","/","/","p","u","r","l",".","o","r","g","/","d","c","/","e","l","e","m","e","n","t","s","/","1",".","1","/","\"",">">>,
     <<"<","c","h","a","n","n","e","l",">">>,
     <<"<","t","i","t","l","e",">">> \o sax_escape(repo) \o <<" ","u","p","d","a","t","e","s","<","/","t","i","t","l","e",">">>,
     <<"<","l","i","n","k",">">> \o sax_escape(<<"h","t","t","p","s",":","/","/","g","i","t","h","u","b",".","c","o","m","/">> \o repo) \o <<"<","/","l","i","n","k",">">>,
     <<"<","d","e","s","c","r","i","p","t","i","o","n",">","A","p","p"," ","u","p","d","a","t","e","s"," ","g","e","n","e","r","a","t","e","d"," ","f","r","o","m"," ","G","i","t","H","u","b"," ","R","e","l","e","a","s","e","s","<","/","d","e","s","c","r","i","p","t","i","o","n",">">>,
     <<"<","!","-","-"," ","W","A","R","N","I","N","G",":"," ","T","h","i","s"," ","g","e","n","e","r","a","t","e","d"," ","a","p","p","c","a","s","t"," ","d","o","e","s"," ","N","O","T"," ","i","n","c","l","u","d","e"," ","S","p","a","r","k","l","e"," ","s","i","g","n","a","t","u","r","e","s",".","\n"," "," "," "," "," "," "," "," "," "," "," "," "," "," "," "," "," ","D","o"," ","N","O","T"," ","u","s","e"," ","u","n","s","i","g","n","e","d"," ","u","p","d","a","t","e","s"," ","i","n"," ","p","r","o","d","u","c","t","i","o","n",".","\n"," "," "," "," "," "," "," "," "," "," "," "," "," "," "," "," "," ","S","i","g","n"," ","y","o","u","r"," ","u","p","d","a","t","e"," ","a","r","c","h","i","v","e","s"," ","w","i","t","h"," ","E","d","D","S","A"," ","(","E","d","2","5","5","1","9",")"," ","a","n","d"," ","i","n","c","l","u","d","e"," ","s","p","a","r","k","l","e",":","e","d","S","i","g","n","a","t","u","r","e"," ","a","t","t","r","i","b","u","t","e","s"," ","i","n"," ","t","h","e"," ","e","n","c","l","o","s","u","r","e"," ","e","l","e","m","e","n","t","s","."," ","-","-",">">> >>

\* the six xml.append calls of one item, in order; arg is the optional value
\* given to sax.escape by that call (sax.escape(None) raises AttributeError)
ItemAppends(it) ==
  << [arg |-> Some(<<>>), line |-> <<"<","i","t","e","m",">">>],
     [arg |-> it.title,
      line |-> IF it.title = None THEN <<>>
               ELSE <<"<","t","i","t","l","e",">">> \o sax_escape(Val(it.title)) \o <<"<","/","t","i","t","l","e",">">>],
     [arg |-> it.notes,
      line |-> IF it.notes = None THEN <<>>
               ELSE <<"<","s","p","a","r","k","l","e",":","r","e","l","e","a","s","e","N","o","t","e","s","L","i","n","k",">">> \o sax_escape(Val(it.notes))
                    \o <<"<","/","s","p","a","r","k","l","e",":","r","e","l","e","a","s","e","N","o","t","e","s","L","i","n","k",">">>],
     [arg |-> Some(it.pubDate),
      line |-> <<"<","p","u","b","D","a","t","e",">">> \o sax_escape(it.pubDate) \o <<"<","/","p","u","b","D","a","t","e",">">>],
     [arg |-> it.url,
      line |-> IF it.url = None THEN <<>>
               ELSE <<"<","e","n","c","l","o","s","u","r","e"," ","u","r","l","=","\"">> \o sax_escape(Val(it.url))
                    \o <<"\""," ","s","p","a","r","k","l","e",":","v","e","r","s","i","o","n","=","\"">> \o sax_escape(it.version)
                    \o <<"\""," ","s","p","a","r","k","l","e",":","s","h","o","r","t","V","e","r","s","i","o","n","S","t","r","i","n","g","=","\"">> \o sax_escape(it.version)
                    \o <<"\""," ","l","e","n","g","t","h","=","\"">> \o sax_escape(it.length)
                    \o <<"\""," ","t","y","p","e","=","\"","a","p","p","l","i","c","a","t","i","o","n","/","o","c","t","e","t","-","s","t","r","e","a","m","\""," ","/",">">>],
     [arg |-> Some(<<>>), line |-> <<"<","/","i","t","e","m",">">>] >>

\* number of appends of the item that complete before one raises
AppendsDone(it) ==
  LET ap == ItemAppends(it)
      bad == {k \in 1..Len(ap) : ap[k].arg = None}
  IN IF bad = {} THEN Len(ap) ELSE (CHOOSE k \in bad : \A h \in bad : k <= h) - 1

ItemRaises(it) == AppendsDone(it) < Len(ItemAppends(it))

ItemLines(it) == [k \in 1..AppendsDone(it) |-> ItemAppends(it)[k].line]

\* '\n'.join(xml)
RECURSIVE join(_)
join(lines) ==
  IF lines = <<>> THEN <<>>
  ELSE IF Len(lines) = 1 THEN lines[1]
  ELSE lines[1] \o <<"\n">> \o join(Tail(lines))

\* ------------------------------------------------------------------------
\* The file system calls of main
\* the directories os.makedirs(d) creates: d and every ancestor of d
Ancestors(d) ==
  {SubSeq(d, 1, k - 1) : k \in {h \in 2..Len(d) : d[h] = "/"}} \cup {d}

\* if outdir and not os.path.exists(outdir)
NeedsMakedirs(outdir, dirs) == outdir # <<>> /\ outdir \notin dirs

\* ------------------------------------------------------------------------
\* State
VARIABLES
  argv,      \* the --output argument of the command line, None when missing
  environ,   \* os.environ: GITHUB_REPOSITORY and GITHUB_TOKEN
  net,       \* what the releases endpoint answers: outcome and parsed body
  fs,        \* file system: existing directories, content at the output path
  fs0,       \* the file system when the process started
  fsLog,     \* file system calls made so far
  requests,  \* HTTP requests issued so far
  stderr,    \* messages printed to sys.stderr
  stdout,    \* messages printed to sys.stdout
  pc,        \* position in main
  repo,      \* local repo
  headers,   \* local headers
  releases,  \* local releases
  i,         \* index of the next release of "for rel in releases"
  items,     \* local items
  xml,       \* local xml
  j,         \* index of the next item of "for it in items"
  exitCode   \* process exit status, None while running

vars == <<argv, environ, net, fs, fs0, fsLog, requests, stderr, stdout, pc,
          repo, headers, releases, i, items, xml, j, exitCode>>

world == <<argv, environ, net, fs0>>
locals == <<repo, headers, releases, i, items, xml, j>>

\* sys.exit(code), or the interpreter ending the process
Exit(code) == pc' = "exited" /\ exitCode' = Some(code)

\* exit status of the interpreter for an uncaught exception
UncaughtExit == 1

\* ------------------------------------------------------------------------
\* Steps of main

\* parse_args followed at once by the creation of the output directory
ParseArgs_mkdir ==
  /\ pc = "parse_args"
  /\ IF argv = None
     THEN /\ Exit(2)
          /\ stderr' = Append(stderr, "argparse: --output is required")
          /\ UNCHANGED <<fs, fsLog>>
     ELSE /\ pc' = "read_env"
          /\ IF NeedsMakedirs(dirname(Val(argv)), fs.dirs)
             THEN /\ fs' = [fs EXCEPT !.dirs = @ \cup Ancestors(dirname(Val(argv)))]
                  /\ fsLog' = Append(fsLog, "makedirs")
             ELSE UNCHANGED <<fs, fsLog>>
          /\ UNCHANGED <<exitCode, stderr>>
  /\ UNCHANGED <<world, requests, stdout, locals>>

\* parser.parse_args(): --output is required, argparse exits with status 2
ParseArgs ==
  /\ pc = "parse_args"
  /\ IF argv = None
     THEN /\ Exit(2)
          /\ stderr' = Append(stderr, "argparse: --output is required")
     ELSE /\ pc' = "read_env"
          /\ UNCHANGED <<exitCode, stderr>>
  /\ UNCHANGED <<world, fs, fsLog, requests, stdout, locals>>

\* "if repo is None" in place of "if not repo"
RepoMissing_onlyNone(r) == r = None

\* if not repo
RepoMissing(r) == ~Truthy(r)

\* headers = {'Accept': ...}; if token: headers['Authorization'] = ...
HeadersFor(token) ==
  [Accept |-> <<"a","p","p","l","i","c","a","t","i","o","n","/","v","n","d",".","g","i","t","h","u","b","+","j","s","o","n">>,
   Authorization |-> IF Truthy(token) THEN Some(<<"t","o","k","e","n"," ">> \o Val(token)) ELSE None]

ReadEnvMissing ==
  /\ pc = "read_env"
  /\ RepoMissing(environ.GITHUB_REPOSITORY)
  /\ repo' = environ.GITHUB_REPOSITORY
  /\ stderr' = Append(stderr, "GITHUB_REPOSITORY not set")
  /\ Exit(2)
  /\ UNCHANGED <<world, fs, fsLog, requests, stdout, headers, releases, i, items, xml, j>>

ReadEnvOk ==
  /\ pc = "read_env"
  /\ ~RepoMissing(environ.GITHUB_REPOSITORY)
  /\ repo' = environ.GITHUB_REPOSITORY
  /\ headers' = HeadersFor(environ.GITHUB_TOKEN)
  /\ pc' = "fetch"
  /\ UNCHANGED <<world, fs, fsLog, requests, stderr, stdout, releases, i, items, xml, j, exitCode>>

\* api = f'https://api.github.com/repos/{repo}/releases'; Request(api, headers)
RequestFor(r, h) ==
  [url |-> <<"h","t","t","p","s",":","/","/","a","p","i",".","g","i","t","h","u","b",".","c","o","m","/","r","e","p","o","s","/">> \o r \o <<"/","r","e","l","e","a","s","e","s">>, headers |-> h]

\* urlopen(req) and json.load(resp) succeed
FetchOk ==
  /\ pc = "fetch"
  /\ net.outcome = "ok"
  /\ requests' = Append(requests, RequestFor(Val(repo), headers))
  /\ releases' = net.body
  /\ items' = <<>>
  /\ i' = 1
  /\ pc' = "transform"
  /\ UNCHANGED <<world, fs, fsLog, stderr, stdout, repo, headers, xml, j, exitCode>>

\* except urllib.error.HTTPError
FetchHTTPError ==
  /\ pc = "fetch"
  /\ net.outcome = "HTTPError"
  /\ requests' = Append(requests, RequestFor(Val(repo), headers))
  /\ stderr' = Append(stderr, "Failed to fetch releases (HTTP)")
  /\ Exit(3)
  /\ UNCHANGED <<world, fs, fsLog, stdout, locals>>

\* no except clause for URLError: the exception is uncaught
FetchURLError_uncaught ==
  /\ pc = "fetch"
  /\ net.outcome = "URLError"
  /\ requests' = Append(requests, RequestFor(Val(repo), headers))
  /\ stderr' = Append(stderr, "Traceback: URLError")
  /\ Exit(UncaughtExit)
  /\ UNCHANGED <<world, fs, fsLog, stdout, locals>>

\* except urllib.error.URLError
FetchURLError ==
  /\ pc = "fetch"
  /\ net.outcome = "URLError"
  /\ requests' = Append(requests, RequestFor(Val(repo), headers))
  /\ stderr' = Append(stderr, "Failed to fetch releases (network)")
  /\ Exit(3)
  /\ UNCHANGED <<world, fs, fsLog, stdout, locals>>

\* the JSONDecodeError clause exiting with the status of the transport errors
FetchJSONDecodeError_as3 ==
  /\ pc = "fetch"
  /\ net.outcome = "JSONDecodeError"
  /\ requests' = Append(requests, RequestFor(Val(repo), headers))
  /\ stderr' = Append(stderr, "Failed to parse GitHub API response as JSON")
  /\ Exit(3)
  /\ UNCHANGED <<world, fs, fsLog, stdout, locals>>

\* except json.JSONDecodeError
FetchJSONDecodeError ==
  /\ pc = "fetch"
  /\ net.outcome = "JSONDecodeError"
  /\ requests' = Append(requests, RequestFor(Val(repo), headers))
  /\ stderr' = Append(stderr, "Failed to parse GitHub API response as JSON")
  /\ Exit(4)
  /\ UNCHANGED <<world, fs, fsLog, stdout, locals>>

\* one iteration of "for rel in releases" that ends in continue
SkipRelease ==
  /\ pc = "transform"
  /\ i <= Len(releases)
  /\ NotPreferred(Preferred(releases[i]))
  /\ i' = i + 1
  /\ UNCHANGED <<world, fs, fsLog, requests, stderr, stdout, pc, repo, headers,
                 releases, items, xml, j, exitCode>>

\* one iteration of "for rel in releases" that appends an item
TransformRelease ==
  /\ pc = "transform"
  /\ i <= Len(releases)
  /\ ~NotPreferred(Preferred(releases[i]))
  /\ PubDateOf(PubOf(releases[i])) # None
  /\ items' = AppendItem(items, ItemOf(releases[i]))
  /\ i' = i + 1
  /\ UNCHANGED <<world, fs, fsLog, requests, stderr, stdout, pc, repo, headers,
                 releases, xml, j, exitCode>>

\* one iteration of "for rel in releases" in which iso_to_rfc2822 raises
TransformRaises ==
  /\ pc = "transform"
  /\ i <= Len(releases)
  /\ ~NotPreferred(Preferred(releases[i]))
  /\ PubDateOf(PubOf(releases[i])) = None
  /\ stderr' = Append(stderr, "Traceback: ValueError")
  /\ Exit(UncaughtExit)
  /\ UNCHANGED <<world, fs, fsLog, requests, stdout, locals>>

\* repo_url = ...; xml = [...]
BuildHeader ==
  /\ pc = "transform"
  /\ i > Len(releases)
  /\ xml' = XmlHeader(Val(repo))
  /\ j' = 1
  /\ pc' = "serialize"
  /\ UNCHANGED <<world, fs, fsLog, requests, stderr, stdout, repo, headers,
                 releases, i, items, exitCode>>

\* one iteration of "for it in items"
SerializeItem ==
  /\ pc = "serialize"
  /\ j <= Len(items)
  /\ ~ItemRaises(items[j])
  /\ xml' = xml \o ItemLines(items[j])
  /\ j' = j + 1
  /\ UNCHANGED <<world, fs, fsLog, requests, stderr, stdout, pc, repo, headers,
                 releases, i, items, exitCode>>

\* one iteration of "for it in items" in which sax.escape(None) raises
SerializeRaises ==
  /\ pc = "serialize"
  /\ j <= Len(items)
  /\ ItemRaises(items[j])
  /\ xml' = xml \o ItemLines(items[j])
  /\ stderr' = Append(stderr, "Traceback: AttributeError")
  /\ Exit(UncaughtExit)
  /\ UNCHANGED <<world, fs, fsLog, requests, stdout, repo, headers, releases,
                 i, items, j>>

\* xml.append('</channel>'); xml.append('</rss>')
CloseXml ==
  /\ pc = "serialize"
  /\ j > Len(items)
  /\ xml' = xml \o << <<"<","/","c","h","a","n","n","e","l",">">>, <<"<","/","r","s","s",">">> >>
  /\ pc' = "makedirs"
  /\ UNCHANGED <<world, fs, fsLog, requests, stderr, stdout, repo, headers,
                 releases, i, items, j, exitCode>>

\* outdir = os.path.dirname(args.output); os.makedirs(outdir, exist_ok=True)
Makedirs ==
  /\ pc = "makedirs"
  /\ LET outdir == dirname(Val(argv))
     IN IF NeedsMakedirs(outdir, fs.dirs)
        THEN /\ fs' = [fs EXCEPT !.dirs = @ \cup Ancestors(outdir)]
             /\ fsLog' = Append(fsLog, "makedirs")
        ELSE UNCHANGED <<fs, fsLog>>
  /\ pc' = "write"
  /\ UNCHANGED <<world, requests, stderr, stdout, locals, exitCode>>

\* with open(args.output, 'w', encoding='utf-8') as f: f.write('\n'.join(xml))
WriteFile ==
  /\ pc = "write"
  /\ fs' = [fs EXCEPT !.file = Some(join(xml))]
  /\ fsLog' = Append(fsLog, "write")
  /\ pc' = "print"
  /\ UNCHANGED <<world, requests, stderr, stdout, locals, exitCode>>

\* print('Wrote', args.output); main returns and the process ends
Finish ==
  /\ pc = "print"
  /\ stdout' = Append(stdout, "Wrote")
  /\ Exit(0)
  /\ UNCHANGED <<world, fs, fsLog, requests, stderr, locals>>

Next ==
  \/ ParseArgs
  \/ ReadEnvMissing
  \/ ReadEnvOk
  \/ FetchOk
  \/ FetchHTTPError
  \/ FetchURLError
  \/ FetchJSONDecodeError
  \/ SkipRelease
  \/ TransformRelease
  \/ TransformRaises
  \/ BuildHeader
  \/ SerializeItem
  \/ SerializeRaises
  \/ CloseXml
  \/ Makedirs
  \/ WriteFile
  \/ Finish

\* ------------------------------------------------------------------------
\* Inputs of a run

\* sequences over S of length at most n
SeqsUpTo(S, n) == UNION {[1..k -> S] : k \in 0..n}

Asset(name, url, size) == [name |-> name, browser_download_url |-> url, size |-> size]

ZipAsset == Asset(Some(<<"a",".","z","i","p">>), Some(<<"u","/","a",".","z","i","p">>), Some(7))

AssetUniverse ==
  { ZipAsset,
    Asset(Some(<<"B",".","Z","I","P">>), Some(<<"u","/","B",".","Z","I","P">>), None),
    Asset(Some(<<"a",".","d","m","g">>), Some(<<"u","/","a",".","d","m","g">>), Some(1024)),
    Asset(Some(<<"a",".","p","k","g">>), Some(<<"u","/","a",".","p","k","g">>), Some(0)),
    Asset(Some(<<"a",".","t","x","t">>), Some(<<"u","/","a",".","t","x","t">>), Some(7)),
    Asset(None, Some(<<"u","/","x">>), Some(7)),
    Asset(Some(<<"q",".","z","i","p">>), Some(<<"u","/","\"","q","\"","&","<",".","z","i","p">>), Some(7)),
    Asset(Some(<<"n",".","p","k","g">>), None, Some(7)) }

\* asset lists: the key absent, or a list of at most MaxAssets assets
AssetLists == {None} \cup {Some(l) : l \in SeqsUpTo(AssetUniverse, MaxAssets)}

Release(tag, name, url, published, created, assets) ==
  [tag_name |-> tag, name |-> name, html_url |-> url,
   published_at |-> published, created_at |-> created, assets |-> assets]

Tags == {None, Some(<<>>), Some(<<"v","1",".","0">>), Some(<<"v","v","1",".","0">>), Some(<<"1",".","0">>),
         Some(<<"v">>), Some(<<"1","v">>), Some(<<"v","\"","1">>)}
Names == {None, Some(<<>>), Some(<<"R","&","D"," ","<","1",">">>)}
Urls == {None, Some(<<"h","t","t","p","s",":","/","/","h","/","r","?","a","=","1","&","b","=","2">>)}
Stamp1 == <<"2","0","2","4","-","0","2","-","0","5","T","1","2",":","3","4",":","5","6","Z">>
Stamp2 == <<"2","0","2","3","-","1","2","-","3","1","T","2","3",":","5","9",":","5","9","Z">>
\* (published_at, created_at): absent, well formed, or not a timestamp
Stamps == { <<Some(Stamp1), Some(Stamp2)>>, <<None, Some(Stamp2)>>,
            <<None, None>>, <<Some(<<>>), None>>, <<Some(<<"n","o","w">>), None>> }

\* releases that vary in their metadata and have one .zip asset
MetaReleases ==
  {Release(t, n, u, st[1], st[2], Some(<<ZipAsset>>)) :
     t \in Tags, n \in Names, u \in Urls, st \in Stamps}

\* releases that vary in their assets
AssetReleases ==
  {Release(Some(<<"v","1",".","0">>), Some(<<"R">>), Some(<<"h">>), Some(Stamp1), None, al) :
     al \in AssetLists}

\* releases used in longer arrays: two that qualify, two that do not, one
\* with no tag and no name, one whose timestamp is not a timestamp
ArrayReleases ==
  { Release(Some(<<"v","1",".","0">>), Some(<<"O","n","e">>), Some(<<"h","/","1">>), Some(Stamp1), None,
            Some(<<ZipAsset>>)),
    Release(Some(<<"2",".","0">>), None, Some(<<"h","/","2">>), None, Some(Stamp2),
            Some(<<Asset(Some(<<"a",".","t","x","t">>), Some(<<"u","/","a",".","t","x","t">>), Some(7)),
                   Asset(Some(<<"B",".","Z","I","P">>), Some(<<"u","/","B",".","Z","I","P">>), None)>>)),
    Release(Some(<<"v","3",".","0">>), Some(<<"T","h","r","e","e">>), Some(<<"h","/","3">>), Some(Stamp1), None,
            Some(<<Asset(Some(<<"a",".","t","x","t">>), Some(<<"u","/","a",".","t","x","t">>), Some(7))>>)),
    Release(Some(<<"v","4",".","0">>), Some(<<"F","o","u","r">>), Some(<<"h","/","4">>), Some(Stamp1), None, None),
    Release(None, None, Some(<<"h","/","5">>), None, None, Some(<<ZipAsset>>)),
    Release(Some(<<"v","6",".","0">>), Some(<<"S","i","x">>), Some(<<"h","/","6">>), Some(<<"n","o","w">>), None,
            Some(<<ZipAsset>>)) }

\* parsed response bodies: arrays of at most MaxReleases releases
Bodies ==
  SeqsUpTo(ArrayReleases, MaxReleases)
  \cup {<<r>> : r \in MetaReleases \cup AssetReleases}

OutputArgs == {None, Some(<<"a",".","x","m","l">>), Some(<<"d","/","e","/","a",".","x","m","l">>)}
Repos == {None, Some(<<>>), Some(<<"o","/","r">>)}
Tokens == {None, Some(<<"t","0","k">>)}
Outcomes == {"ok", "HTTPError", "URLError", "JSONDecodeError"}
OldContent == <<"o","l","d">>

\* file systems the run can start in: the output directory may be missing,
\* and a file may already be at the output path
FileSystems(out) ==
  LET d == IF out = None THEN <<>> ELSE dirname(Val(out))
  IN {[dirs |-> {}, file |-> None]}
     \cup (IF out # None /\ d = <<>> THEN {[dirs |-> {}, file |-> Some(OldContent)]} ELSE {})
     \cup (IF d # <<>>
           THEN {[dirs |-> Ancestors(d), file |-> f] : f \in {None, Some(OldContent)}}
                \cup {[dirs |-> Ancestors(d) \ {d}, file |-> None]}
           ELSE {})

Scenario(out, r, t, o, b, f) ==
  [argv |-> out, environ |-> [GITHUB_REPOSITORY |-> r, GITHUB_TOKEN |-> t],
   net |-> [outcome |-> o, body |-> b], fs |-> f]

\* every configuration, with a few response bodies
ConfigScenarios ==
  {Scenario(out, r, t, o, b, f) :
     out \in OutputArgs, r \in Repos, t \in Tokens, o \in Outcomes,
     b \in SeqsUpTo(ArrayReleases, 1), f \in UNION {FileSystems(a) : a \in OutputArgs}}

\* every response body, under one working configuration
BodyScenarios ==
  {Scenario(Some(<<"d","/","e","/","a",".","x","m","l">>), Some(<<"o","/","r">>), None, "ok", b,
            [dirs |-> {<<"d">>}, file |-> None]) : b \in Bodies}

\* a body is only there when the fetch succeeds, and the file system is one
\* the output argument can meet
Scenarios ==
  {s \in ConfigScenarios :
     /\ s.fs \in FileSystems(s.argv)
     /\ s.net.outcome # "ok" => s.net.body = <<>>}
  \cup BodyScenarios

Init ==
  \E s \in Scenarios :
    /\ argv = s.argv
    /\ environ = s.environ
    /\ net = s.net
    /\ fs = s.fs
    /\ fs0 = s.fs
    /\ fsLog = <<>>
    /\ requests = <<>>
    /\ stderr = <<>>
    /\ stdout = <<>>
    /\ pc = "parse_args"
    /\ repo = None
    /\ headers = HeadersFor(None)
    /\ releases = <<>>
    /\ i = 0
    /\ items = <<>>
    /\ xml = <<>>
    /\ j = 0
    /\ exitCode = None

Spec == Init /\ [][Next]_vars

\* ------------------------------------------------------------------------
\* Vocabulary of the properties, stated from the release array alone

\* the release has an asset whose name ends, in any case, in a known extension
RecognizedExts == {<<".","z","i","p">>, <<".","d","m","g">>, <<".","p","k","g">>}
NameText(a) == IF a.name = None THEN <<>> ELSE Val(a.name)
Recognized(a) == \E e \in RecognizedExts : endswith(lower(NameText(a)), e)
Rank(a) ==
  IF endswith(lower(NameText(a)), <<".","z","i","p">>) THEN 0
  ELSE IF endswith(lower(NameText(a)), <<".","d","m","g">>) THEN 1 ELSE 2
ListedAssets(rel) == IF rel.assets = None THEN <<>> ELSE Val(rel.assets)
Qualifies(rel) == \E k \in 1..Len(ListedAssets(rel)) : Recognized(ListedAssets(rel)[k])

\* the first asset, in list order, among those of the lowest rank
BestAsset(rel) ==
  LET as == ListedAssets(rel)
      rec == {k \in 1..Len(as) : Recognized(as[k])}
      low == {k \in rec : \A h \in rec : Rank(as[k]) <= Rank(as[h])}
  IN as[CHOOSE k \in low : \A h \in low : k <= h]

\* indices of the qualifying releases among the first n, in ascending order
RECURSIVE QualifyingUpTo(_, _)
QualifyingUpTo(rels, n) ==
  IF n = 0 THEN <<>>
  ELSE IF Qualifies(rels[n]) THEN Append(QualifyingUpTo(rels, n - 1), n)
  ELSE QualifyingUpTo(rels, n - 1)

\* the tag with one leading "v" removed, the empty string for no tag
StripOneV(tag) ==
  IF tag = None THEN <<>>
  ELSE IF Val(tag) # <<>> /\ Head(Val(tag)) = "v" THEN Tail(Val(tag)) ELSE Val(tag)

\* the loop over releases has just appended the item of releases[i - 1]
JustAppended ==
  pc = "transform" /\ i > 1 /\ Qualifies(releases[i - 1]) /\ items # <<>>
LastRelease == releases[i - 1]
LastItem == items[Len(items)]

\* the run got past the fetch
Fetched == net.outcome = "ok" /\ requests # <<>>
\* the output file has been written by this run
Written == \E k \in 1..Len(fsLog) : fsLog[k] = "write"
WriteCount == Cardinality({k \in 1..Len(fsLog) : fsLog[k] = "write"})
Untouched == fs = fs0 /\ fsLog = <<>>

StartsWith(s, p) == Len(s) >= Len(p) /\ SubSeq(s, 1, Len(p)) = p
ItemOpenLines == {k \in 1..Len(xml) : xml[k] = <<"<","i","t","e","m",">">>}
HeaderLen == Len(XmlHeader(<<>>))
LinesPerItem ==
  Len(ItemAppends([title |-> None, notes |-> None, pubDate |-> <<>>, url |-> None,
                   length |-> <<>>, version |-> <<>>]))
\* the lines of the k-th item element of the document
DocItem(k) == SubSeq(xml, HeaderLen + LinesPerItem * (k - 1) + 1, HeaderLen + LinesPerItem * k)

\* a line is one well-formed empty-element tag: <name attr="value" ... />
NameChars == {UpperLetters[k] : k \in 1..26} \cup {LowerLetters[k] : k \in 1..26}
             \cup {Digits[k] : k \in 1..10} \cup {":", ".", "-", "_"}
\* A quote opens a value when an even number of quotes precede it and closes
\* one otherwise; a position is inside a value when an odd number precede it.
WellFormedEmptyTag(s) ==
  LET n == Len(s)
      Q == {q \in 1..n : s[q] = "\""}
      before(p) == Cardinality({q \in Q : q < p})
      inside(p) == p \notin Q /\ before(p) % 2 = 1
      outside(p) == p \notin Q /\ before(p) % 2 = 0
  IN /\ n >= 4 /\ s[1] = "<" /\ s[2] \in NameChars
     /\ s[n - 1] = "/" /\ s[n] = ">"
     /\ Cardinality(Q) % 2 = 0
     /\ \A p \in Q :
          IF before(p) % 2 = 0
          THEN p > 2 /\ s[p - 1] = "=" /\ s[p - 2] \in NameChars
          ELSE p < n /\ s[p + 1] \in {" ", "/"}
     /\ \A p \in 1..n :
          /\ inside(p) =>
               /\ s[p] # "<"
               /\ s[p] = "&" =>
                    \E e \in (p + 2)..n :
                      s[e] = ";" /\ \A m \in (p + 1)..(e - 1) : s[m] \in NameChars
          /\ outside(p) =>
               \/ s[p] \in NameChars
               \/ s[p] = " "
               \/ s[p] = "=" /\ p < n /\ s[p + 1] = "\""
               \/ s[p] = "<" /\ p = 1
               \/ s[p] = "/" /\ p = n - 1
               \/ s[p] = ">" /\ p = n

\* ------------------------------------------------------------------------
\* Properties

\* C1: the version of the item appended for a release is its tag with
\* exactly one leading "v" removed when the tag starts with "v", the tag
\* unchanged otherwise, and the empty string when the tag is absent.
C1_VersionStripsOneLeadingV ==
  JustAppended => LastItem.version = StripOneV(LastRelease.tag_name)

\* C2: every enclosure line of the document is a well-formed empty-element
\* tag, whatever characters the download URL and the tag contain (a quote
\* inside them is escaped and does not end the attribute value).
C2_EnclosureWellFormed ==
  \A k \in 1..Len(xml) :
    StartsWith(xml[k], <<"<","e","n","c","l","o","s","u","r","e">>) => WellFormedEmptyTag(xml[k])

\* C3: a run whose fetch succeeded, over releases that only lack fields
\* (every timestamp present is a timestamp), ends with exit code 0 and a
\* written feed.
C3_AnomaliesNeverFail ==
  (pc = "exited" /\ Fetched
     /\ \A k \in 1..Len(releases) : PubDateOf(PubOf(releases[k])) # None)
  => exitCode = Some(0) /\ Written

\* C4: the item appended for a release carries the URL and the size of the
\* asset of lowest rank among its recognized assets, the first of them in
\* list order when several share that rank.
C4_LowestRankFirstWins ==
  JustAppended =>
    /\ LastItem.url = BestAsset(LastRelease).browser_download_url
    /\ LastItem.length
         = str(IF BestAsset(LastRelease).size = None THEN 0
               ELSE Val(BestAsset(LastRelease).size))

\* witness of C4: an item was appended for a release whose first recognized
\* asset is not its best one, and which has two assets of the best rank
C4_Witness ==
  /\ JustAppended
  /\ LET as == ListedAssets(LastRelease)
     IN /\ \E k \in 1..Len(as) :
             Recognized(as[k]) /\ Rank(as[k]) > Rank(BestAsset(LastRelease))
             /\ \A h \in 1..(k - 1) : ~Recognized(as[h])
        /\ \E k, h \in 1..Len(as) :
             k # h /\ as[k] # as[h] /\ Recognized(as[k]) /\ Recognized(as[h])
             /\ Rank(as[k]) = Rank(as[h]) /\ Rank(as[k]) = Rank(BestAsset(LastRelease))
  /\ LastItem.url = BestAsset(LastRelease).browser_download_url

\* C5: the number of items equals the number of releases processed so far
\* that have an asset with a recognized extension (none for an empty or
\* absent asset list), and the written document has that many item elements.
C5_OneItemPerQualifyingRelease ==
  /\ Len(items) = Len(QualifyingUpTo(releases, IF i = 0 THEN 0 ELSE i - 1))
  /\ Written => Cardinality(ItemOpenLines) = Len(QualifyingUpTo(releases, Len(releases)))

\* witness of C5: a feed was written from an array holding a release with an
\* upper-case extension, one with no recognized asset and one with no list
C5_Witness ==
  /\ Written
  /\ items # <<>>
  /\ \E k \in 1..Len(releases) :
       /\ Qualifies(releases[k])
       /\ \A a \in 1..Len(ListedAssets(releases[k])) :
            Recognized(ListedAssets(releases[k])[a])
            => ~(\E e \in RecognizedExts : endswith(NameText(ListedAssets(releases[k])[a]), e))
  /\ \E k \in 1..Len(releases) :
       releases[k].assets # None /\ Val(releases[k].assets) # <<>> /\ ~Qualifies(releases[k])
  /\ \E k \in 1..Len(releases) : releases[k].assets = None

\* C6: with GITHUB_REPOSITORY absent or empty and an --output argument
\* given, no request is issued, the file system is untouched, and the run
\* ends with exit code 2.
C6_MissingRepository ==
  (argv # None /\ (environ.GITHUB_REPOSITORY = None \/ environ.GITHUB_REPOSITORY = Some(<<>>)))
  => /\ requests = <<>>
     /\ Untouched
     /\ pc \in {"parse_args", "read_env", "exited"}
     /\ pc = "exited" => exitCode = Some(2)

\* witness of C6: the run ended on an empty GITHUB_REPOSITORY while a file
\* was already at the output path
C6_Witness ==
  /\ pc = "exited" /\ exitCode = Some(2)
  /\ argv # None /\ environ.GITHUB_REPOSITORY = Some(<<>>)
  /\ fs0.file = Some(OldContent) /\ fs.file = Some(OldContent)

\* C7: when the releases request fails with an HTTP error or a connection
\* error, the run ends at once with exit code 3, after that one request,
\* and the file system is untouched.
C7_TransportFailure ==
  (requests # <<>> /\ net.outcome \in {"HTTPError", "URLError"})
  => /\ pc = "exited" /\ exitCode = Some(3)
     /\ Len(requests) = 1
     /\ Untouched

\* witness of C7: a connection error ended the run
C7_Witness ==
  /\ requests # <<>> /\ net.outcome = "URLError"
  /\ exitCode = Some(3) /\ fs0.file = Some(OldContent) /\ Untouched

\* C8: when the request succeeds but the body is not JSON, the run ends
\* with exit code 4, which is none of 0, 2 and 3, and the file system is
\* untouched.
C8_FormatFailure ==
  (requests # <<>> /\ net.outcome = "JSONDecodeError")
  => /\ pc = "exited" /\ exitCode = Some(4)
     /\ exitCode \notin {Some(0), Some(2), Some(3)}
     /\ Len(requests) = 1
     /\ Untouched

\* witness of C8: a body that is not JSON ended the run
C8_Witness ==
  /\ requests # <<>> /\ net.outcome = "JSONDecodeError"
  /\ exitCode = Some(4) /\ Untouched

\* C9: the items, and the item elements of the written document, are those
\* of the qualifying releases in the order of the fetched array, each once.
C9_OrderPreserved ==
  LET upto == IF i = 0 THEN 0 ELSE i - 1
      q == QualifyingUpTo(releases, upto)
  IN /\ Len(items) = Len(q)
     /\ \A k \in 1..Len(items) :
          /\ items[k].title = TitleOf(releases[q[k]])
          /\ items[k].notes = releases[q[k]].html_url
     /\ Written =>
          /\ Len(xml) = HeaderLen + LinesPerItem * Len(q) + 2
          /\ \A k \in 1..Len(q) :
               /\ DocItem(k)[1] = <<"<","i","t","e","m",">">>
               /\ DocItem(k)[2]
                    = <<"<","t","i","t","l","e",">">> \o sax_escape(Val(TitleOf(releases[q[k]]))) \o <<"<","/","t","i","t","l","e",">">>
               /\ DocItem(k)[3]
                    = <<"<","s","p","a","r","k","l","e",":","r","e","l","e","a","s","e","N","o","t","e","s","L","i","n","k",">">> \o sax_escape(Val(releases[q[k]].html_url))
                      \o <<"<","/","s","p","a","r","k","l","e",":","r","e","l","e","a","s","e","N","o","t","e","s","L","i","n","k",">">>
               /\ DocItem(k)[6] = <<"<","/","i","t","e","m",">">>
          /\ fs.file = Some(join(xml))

\* witness of C9: a feed was written with the items of two different
\* qualifying releases that have a skipped release between them
C9_Witness ==
  /\ Written
  /\ Len(items) >= 2
  /\ items[1].title # items[2].title
  /\ \E a, b, c \in 1..Len(releases) :
       a < b /\ b < c /\ Qualifies(releases[a]) /\ ~Qualifies(releases[b])
       /\ Qualifies(releases[c])

\* C10: the file system changes only once the fetch has succeeded, every
\* release has been transformed and the document is complete; the file is
\* written at most once; exit code 0 comes only after the write, and every
\* other exit leaves the file system untouched.
C10_SideEffectsLast ==
  /\ ~Untouched =>
       /\ pc \in {"write", "print", "exited"}
       /\ Fetched
       /\ i = Len(releases) + 1 /\ j = Len(items) + 1
       /\ xml # <<>> /\ xml[Len(xml)] = <<"<","/","r","s","s",">">>
  /\ WriteCount <= 1
  /\ Written => fs.file = Some(join(xml))
  /\ exitCode = Some(0) => Written
  /\ (exitCode # None /\ exitCode # Some(0)) => Untouched

\* witness of C10: an uncaught exception while serializing ended the run
\* with part of the document built and the old file still in place
C10_Witness ==
  /\ pc = "exited" /\ exitCode = Some(UncaughtExit)
  /\ xml # <<>>
  /\ fs0.file = Some(OldContent) /\ Untouched

=============================================================================
